---- MODULE Spec2Model ----
(***************************************************************************)
(* The C binding of libhdfspp (lib/bindings/c/hdfs.cc): the exported calls *)
(* as atomic steps of the calling thread, over the thread-local error      *)
(* record and callback slots, the handle wrappers and the engine objects   *)
(* they own, the configuration builders and the engine-global log state.   *)
(* The engine (FileSystem, FileHandle, ConfigurationLoader, LogManager) is *)
(* an environment whose outcome is an input of each step.                  *)
(***************************************************************************)
EXTENDS Integers, Sequences, FiniteSets, TLC

VARIABLES
  errstr,            \* thread_local std::string errstr
  errno,             \* the calling thread's errno
  fsEventCallback,   \* thread_local optional<fs_event_callback>
  fileEventCallback, \* thread_local optional<file_event_callback>
  filesystems,       \* engine FileSystem objects, in allocation order
  fsHandles,         \* hdfs_internal wrappers, in allocation order
  files,             \* hdfsFile_internal wrappers with their FileHandle
  builders,          \* hdfsBuilder objects, in allocation order
  logState,          \* LogManager: enabled components, level, logger
  heap,              \* malloc'ed blocks and the caller's log text, by address
  recorded,          \* per thread: what its own calls passed to ReportError
  registered,        \* per thread: the callbacks its own calls registered
  last,              \* the exported call that ran last, and how it ended
  calls,             \* number of exported calls issued so far
  budget             \* number of exported calls the run is followed for

vars == <<errstr, errno, fsEventCallback, fileEventCallback, filesystems,
          fsHandles, files, builders, logState, heap, recorded, registered,
          last, calls, budget>>

-----------------------------------------------------------------------------
(* Bounds of the model *)

MaxCalls == 2          \* exported calls in a run of Spec, SpecError, SpecBuf
MaxFSCalls == 3        \* exported calls in a run of SpecFS
MaxBuilderCalls == 3   \* exported calls in a run of SpecBuilder
MaxMonitorCalls == 3   \* exported calls in a run of SpecMonitor
MaxFS == 2             \* FileSystem objects ever made
MaxFiles == 1          \* files ever opened
MaxBuilders == 1       \* builders ever made
MaxBuf == 4            \* bytes of the buffer given to hdfsGetLastError
MaxLogCalls == 3       \* exported calls in a run of SpecLog
MaxHeapBlocks == 4     \* addresses a pointer can hold, beside NULL

Threads == {"T1", "T2"}
MainThread == "T1"

\* A null pointer; handles and builders are the positive indices of their
\* wrappers.
NULL == 0

\* optional<T>: empty, or holding one value.  A nullable C string likewise.
nullopt == <<>>
Some(v) == <<v>>

-----------------------------------------------------------------------------
(* Values of the program *)

kDefaultPort == 8020
kUseDefaultPort == 0

\* Status::Code as this file switches on it; kOther is any code the switch
\* of Error does not name.
Codes == {"kOk", "kInvalidArgument", "kResourceUnavailable", "kUnimplemented",
          "kException", "kOperationCanceled", "kPermissionDenied", "kOther"}

\* Status objects: a code and the text of ToString().
Statuses == {[code |-> c, msg |-> m] : c \in Codes \ {"kOk"}, m \in {"", "engine text"}}
              \cup {[code |-> "kOk", msg |-> ""]}

StatusOK == [code |-> "kOk", msg |-> ""]

\* Status::Exception(class name, message): the text names both.
StatusException(cls, what) == [code |-> "kException", msg |-> cls \o ":" \o what]

\* What the engine does when a step calls into it.
EngineStatuses == {StatusOK, [code |-> "kResourceUnavailable", msg |-> ""]}

EngineOutcomes == {[kind |-> "status", status |-> s] : s \in EngineStatuses} \cup
                  {[kind |-> k, status |-> StatusOK] : k \in {"throw_std", "throw_other"}}

EngineVoidOutcomes == {o \in EngineOutcomes : o.kind # "status" \/ o.status = StatusOK}

-----------------------------------------------------------------------------
(* The error channel *)

NoReport == [errnum |-> "none", msg |-> "none"]

\* ReportError(errnum, msg): errno = errnum; errstr = msg.
ReportError(errnum, msg) == [errnum |-> errnum, msg |-> msg]

\* A write of a thread_local variable by thread t.
ThreadLocalShared(var, t, v) == [u \in DOMAIN var |-> v]

ThreadLocalSet(var, t, v) == [var EXCEPT ![t] = v]

\* The effect of a call's ReportError, if it made one, on one of the two
\* thread-local slots (field "errnum" for errno, "msg" for errstr).
Reported(var, t, rep, fld) ==
  IF rep = NoReport THEN var ELSE ThreadLocalSet(var, t, rep[fld])

\* Error(stat), lines 117-158: the return value and the report made.
ErrorTable(code) ==
  CASE code = "kInvalidArgument"     -> ReportError("EINVAL", "Invalid argument")
    [] code = "kResourceUnavailable" -> ReportError("EAGAIN", "Resource temporarily unavailable")
    [] code = "kUnimplemented"       -> ReportError("ENOSYS", "Function not implemented")
    [] code = "kException"           -> ReportError("EINTR", "Exception raised")
    [] code = "kOperationCanceled"   -> ReportError("EINTR", "Operation canceled")
    [] code = "kPermissionDenied"    -> ReportError("EACCES", "Permission denied")
    [] OTHER                         -> ReportError("ENOSYS", "Error: unrecognised code")

ErrorNoText(stat) ==
  IF stat.code = "kOk"
  THEN [ret |-> 0, rep |-> NoReport]
  ELSE [ret |-> -1, rep |-> ErrorTable(stat.code)]

Error(stat) ==
  IF stat.code = "kOk"
  THEN [ret |-> 0, rep |-> NoReport]
  ELSE LET d == ErrorTable(stat.code)
       IN  [ret |-> -1,
            rep |-> IF stat.msg = "" THEN d ELSE ReportError(d.errnum, stat.msg)]

ReportException(what) == Error(StatusException("Uncaught exception", what))

ReportCaughtNonException ==
  Error(StatusException("Uncaught value not derived from std::exception", ""))

\* The catch clauses that end every guarded body.
Caught(o) ==
  IF o.kind = "throw_std" THEN ReportException("bad") ELSE ReportCaughtNonException

-----------------------------------------------------------------------------
(* How an exported call ended: its return value, the report it made to the  *)
(* error channel, whether a thrown value left it, whether it reached the    *)
(* engine, its arguments and what it wrote through its out-parameter.       *)

Call(op, t, ret, rep, escaped, engine, args, out) ==
  [op |-> op, thread |-> t, ret |-> ret, rep |-> rep, escaped |-> escaped,
   engine |-> engine, args |-> args, out |-> out]

NoCall == Call("none", "none", 0, NoReport, FALSE, FALSE, <<>>, <<>>)

\* The part of every exported call that is the same: the thread-local error
\* record takes the call's report, if it made one.
Records(t, c) ==
  /\ calls' = calls + 1
  /\ budget' = budget
  /\ errstr' = Reported(errstr, t, c.rep, "msg")
  /\ errno' = Reported(errno, t, c.rep, "errnum")
  /\ recorded' = IF c.rep = NoReport THEN recorded
                                      ELSE [recorded EXCEPT ![t] = c.rep.msg]
  /\ last' = c

\* A call that does not touch the malloc'ed blocks modelled in heap.
Returns(t, c) ==
  /\ Records(t, c)
  /\ heap' = heap

-----------------------------------------------------------------------------
(* Handles *)

LiveFS == {h \in 1..Len(fsHandles) : fsHandles[h].alive}
LiveFiles == {f \in 1..Len(files) : files[f].alive}
LiveBuilders == {b \in 1..Len(builders) : builders[b].alive}

\* CheckSystemAndHandle, lines 171-181.
CheckFileOnly(fs, file) ==
  IF file = NULL
  THEN [ok |-> FALSE,
        rep |-> ReportError("EBADF", "Cannot perform FS operations with null File handle.")]
  ELSE [ok |-> TRUE, rep |-> NoReport]

CheckSystemAndHandle(fs, file) ==
  IF fs = NULL
  THEN [ok |-> FALSE,
        rep |-> ReportError("ENODEV", "Cannot perform FS operations with null FS handle.")]
  ELSE IF file = NULL
  THEN [ok |-> FALSE,
        rep |-> ReportError("EBADF", "Cannot perform FS operations with null File handle.")]
  ELSE [ok |-> TRUE, rep |-> NoReport]

\* The common body of hdfsPread, hdfsRead, hdfsSeek and hdfsTell: check the
\* handles, call the engine's FileHandle, translate its status; okret is
\* what the call returns when the engine reports success.
FileCall(op, t, fs, file, eng, okret) ==
  LET chk == CheckSystemAndHandle(fs, file) IN
  IF ~chk.ok
  THEN Call(op, t, -1, chk.rep, FALSE, FALSE, <<fs, file>>, <<>>)
  ELSE IF eng.kind # "status"
  THEN Call(op, t, Caught(eng).ret, Caught(eng).rep, FALSE, TRUE, <<fs, file>>, <<>>)
  ELSE IF eng.status.code # "kOk"
  THEN Call(op, t, Error(eng.status).ret, Error(eng.status).rep, FALSE, TRUE,
            <<fs, file>>, <<>>)
  ELSE Call(op, t, okret, NoReport, FALSE, TRUE, <<fs, file>>, <<>>)

-----------------------------------------------------------------------------
(* Connecting *)

Hosts == {"", "nn1"}
Ports == {0, 9000}
Users == {"", "u1"}

\* Options(), and HdfsConfiguration::GetOptions(): the options a
\* configuration snapshot yields.
DefaultOptions == nullopt
GetOptions(config) == Some(config)

value_or(opt, dflt) == IF opt = nullopt THEN dflt ELSE opt[1]

\* std::to_string of a port number.
Digit(d) == SubSeq("0123456789", d + 1, d + 1)

RECURSIVE to_string(_)
to_string(n) == IF n < 10 THEN Digit(n) ELSE to_string(n \div 10) \o Digit(n % 10)

\* Lines 210-219 of doHdfsConnect: the call made on the new FileSystem.
ConnectRequestNoDefaultPort(nn, port) ==
  IF nn # nullopt \/ port # nullopt
  THEN [kind |-> "Connect", host |-> value_or(nn, ""),
        port |-> to_string(value_or(port, 0))]
  ELSE [kind |-> "ConnectToDefaultFs", host |-> "", port |-> ""]

ConnectRequest(nn, port) ==
  IF nn # nullopt \/ port # nullopt
  THEN [kind |-> "Connect", host |-> value_or(nn, ""),
        port |-> to_string(IF port = nullopt THEN kDefaultPort ELSE port[1])]
  ELSE [kind |-> "ConnectToDefaultFs", host |-> "", port |-> ""]

\* What the engine does inside doHdfsConnect: IoService::New or
\* FileSystem::New throws (at "new"), FileSystem::New returns null, or the
\* FileSystem is built and its connect call returns a status or throws.
ConnectOutcomes ==
  {[kind |-> "status", status |-> s, at |-> "connect"] : s \in EngineStatuses} \cup
  {[kind |-> k, status |-> StatusOK, at |-> a] :
      k \in {"throw_std", "throw_other"}, a \in {"new", "connect"}} \cup
  {[kind |-> "new_null", status |-> StatusOK, at |-> "new"]}

\* A call into the engine that returns no status: it returns or it throws.
UnguardedOutcomes == {"ok", "throw_std", "throw_other"}

\* The engine's part in a connect entry point: how building the Options
\* ends (opt) and, when that returns, what happens inside doHdfsConnect.
ConnectEnvs ==
  {[opt |-> "ok", eng |-> e] : e \in ConnectOutcomes} \cup
  {[opt |-> k, eng |-> [kind |-> "new_null", status |-> StatusOK, at |-> "new"]] :
      k \in {"throw_std", "throw_other"}}

\* FileSystem::New and, when a callback is pending, SetFsEventCallback; by
\* is the thread that made the object.  No call of this file hands the
\* FileSystem a file-event callback.
FileSystemNewNoCallback(t, user, options, cb) ==
  [alive |-> TRUE, user |-> user, options |-> options, callback |-> nullopt,
   file_callback |-> nullopt, request |-> nullopt, by |-> t]

FileSystemNew(t, user, options, cb) ==
  [alive |-> TRUE, user |-> user, options |-> options, callback |-> cb,
   file_callback |-> nullopt, request |-> nullopt, by |-> t]

\* doHdfsConnect, lines 195-241.  cb is the calling thread's fsEventCallback,
\* h the wrapper a success would allocate.  The result names the call's end,
\* the FileSystem object the call leaves behind (alive or deleted), if it
\* made one, and whether a wrapper was built around it.
doHdfsConnect(op, t, nn, port, user, options, cb, eng, h, args) ==
  LET fs  == FileSystemNew(t, value_or(user, ""), options, cb)
      req == ConnectRequest(nn, port)
      con == [fs EXCEPT !.request = Some(req)]
  IN
  IF eng.kind \in {"throw_std", "throw_other"} /\ eng.at = "new"
  THEN [call |-> Call(op, t, NULL, Caught(eng).rep, FALSE, TRUE, args, <<>>),
        obj |-> <<>>, wrap |-> FALSE]
  ELSE IF eng.kind = "new_null"
  THEN [call |-> Call(op, t, NULL,
                      ReportError("ENODEV", "Could not create FileSystem object"),
                      FALSE, TRUE, args, <<>>),
        obj |-> <<>>, wrap |-> FALSE]
  ELSE IF eng.kind \in {"throw_std", "throw_other"}
  THEN [call |-> Call(op, t, NULL, Caught(eng).rep, FALSE, TRUE, args, Some(req)),
        obj |-> Some(con), wrap |-> FALSE]
  ELSE IF eng.status.code # "kOk"
  THEN [call |-> Call(op, t, NULL, Error(eng.status).rep, FALSE, TRUE, args, Some(req)),
        obj |-> Some([con EXCEPT !.alive = FALSE]), wrap |-> FALSE]
  ELSE [call |-> Call(op, t, h, NoReport, FALSE, TRUE, args, Some(req)),
        obj |-> Some(con), wrap |-> TRUE]

\* A call left by a thrown value: nothing is returned and nothing reported.
Escaped(op, t, args) == Call(op, t, 0, NoReport, TRUE, TRUE, args, <<>>)

\* The state change of a connect entry point.
Connects(t, r) ==
  /\ Len(filesystems) < MaxFS
  /\ Returns(t, r.call)
  /\ filesystems' = filesystems \o r.obj
  /\ fsHandles' = IF r.wrap
                  THEN Append(fsHandles, [alive |-> TRUE, filesystem_ |-> Len(filesystems) + 1])
                  ELSE fsHandles
  /\ UNCHANGED <<fsEventCallback, fileEventCallback, files, builders, logState, registered>>

NoConnect == [call |-> NoCall, obj |-> <<>>, wrap |-> FALSE]

\* hdfsConnectAsUser, lines 247-249: the arguments are converted, and the
\* default Options built, before doHdfsConnect's try block is entered.
ConnectAsUser(op, t, nn, port, user, opt, eng, args) ==
  IF opt # "ok"
  THEN [NoConnect EXCEPT !.call = Escaped(op, t, args)]
  ELSE doHdfsConnect(op, t, Some(nn), Some(port), Some(user), DefaultOptions,
                     fsEventCallback[t], eng, Len(fsHandles) + 1, args)

hdfsConnectAsUser(t) ==
  /\ calls < budget
  /\ \E nn \in Hosts, port \in Ports, user \in Users \ {""}, env \in ConnectEnvs :
       Connects(t, ConnectAsUser("hdfsConnectAsUser", t, nn, port, user, env.opt, env.eng,
                                 <<nn, port, user>>))

\* hdfsConnect, lines 243-245.
hdfsConnect(t) ==
  /\ calls < budget
  /\ \E nn \in Hosts, port \in Ports, env \in ConnectEnvs :
       Connects(t, ConnectAsUser("hdfsConnect", t, nn, port, "", env.opt, env.eng,
                                 <<nn, port>>))

\* hdfsDisconnect, lines 251-266.
Disconnect(t, fs) ==
  IF fs = NULL
  THEN Call("hdfsDisconnect", t, -1,
            ReportError("ENODEV", "Cannot disconnect null FS handle."),
            FALSE, FALSE, <<fs>>, <<>>)
  ELSE Call("hdfsDisconnect", t, 0, NoReport, FALSE, TRUE, <<fs>>, <<>>)

\* delete fs: the wrapper's unique_ptr destroys the FileSystem it owns.
DeleteNothing(fs) ==
  /\ fsHandles' = fsHandles
  /\ filesystems' = filesystems

DeleteHandle(fs) ==
  /\ fsHandles' = [fsHandles EXCEPT ![fs].alive = FALSE]
  /\ filesystems' = [filesystems EXCEPT ![fsHandles[fs].filesystem_].alive = FALSE]

hdfsDisconnect(t) ==
  /\ calls < budget
  /\ \E fs \in {NULL} \cup LiveFS :
       /\ Returns(t, Disconnect(t, fs))
       /\ IF fs = NULL THEN UNCHANGED <<fsHandles, filesystems>> ELSE DeleteHandle(fs)
       /\ UNCHANGED <<fsEventCallback, fileEventCallback, files, builders, logState, registered>>

-----------------------------------------------------------------------------
(* Files *)

\* hdfsOpenFile, lines 268-294; f is the wrapper a success allocates.  The
\* FileHandle it wraps is given no event callback.
OpenFile(t, fs, eng, f) ==
  IF fs = NULL
  THEN Call("hdfsOpenFile", t, NULL,
            ReportError("ENODEV", "Cannot perform FS operations with null FS handle."),
            FALSE, FALSE, <<fs>>, <<>>)
  ELSE IF eng.kind # "status"
  THEN Call("hdfsOpenFile", t, NULL, Caught(eng).rep, FALSE, TRUE, <<fs>>, <<>>)
  ELSE IF eng.status.code # "kOk"
  THEN Call("hdfsOpenFile", t, NULL, Error(eng.status).rep, FALSE, TRUE, <<fs>>, <<>>)
  ELSE Call("hdfsOpenFile", t, f, NoReport, FALSE, TRUE, <<fs>>, <<>>)

hdfsOpenFile(t) ==
  /\ calls < budget
  /\ \E fs \in {NULL} \cup LiveFS, eng \in EngineOutcomes :
       LET c == OpenFile(t, fs, eng, Len(files) + 1) IN
       /\ Len(files) < MaxFiles
       /\ Returns(t, c)
       /\ files' = IF c.ret # NULL THEN Append(files, [alive |-> TRUE, fs |-> fs, callback |-> nullopt]) ELSE files
       /\ UNCHANGED <<fsEventCallback, fileEventCallback, filesystems, fsHandles, builders,
                      logState, registered>>

\* hdfsCloseFile, lines 296-309.
CloseFile(t, fs, file) ==
  LET chk == CheckSystemAndHandle(fs, file) IN
  IF ~chk.ok
  THEN Call("hdfsCloseFile", t, -1, chk.rep, FALSE, FALSE, <<fs, file>>, <<>>)
  ELSE Call("hdfsCloseFile", t, 0, NoReport, FALSE, TRUE, <<fs, file>>, <<>>)

hdfsCloseFile(t) ==
  /\ calls < budget
  /\ \E fs \in {NULL} \cup LiveFS, file \in {NULL} \cup LiveFiles :
       LET c == CloseFile(t, fs, file) IN
       /\ Returns(t, c)
       /\ files' = IF c.ret = 0 THEN [files EXCEPT ![file].alive = FALSE] ELSE files
       /\ UNCHANGED <<fsEventCallback, fileEventCallback, filesystems, fsHandles, builders,
                      logState, registered>>

\* A call that changes nothing but the error record.
OnlyReturns(t, c) ==
  /\ Returns(t, c)
  /\ UNCHANGED <<fsEventCallback, fileEventCallback, filesystems, fsHandles, files,
                 builders, logState, registered>>

\* Byte counts and offsets the engine hands back.
Counts == {0, 1}

\* hdfsPread, lines 311-330.
hdfsPread(t) ==
  /\ calls < budget
  /\ \E fs \in {NULL} \cup LiveFS, file \in {NULL} \cup LiveFiles,
        eng \in EngineOutcomes, len \in Counts :
       OnlyReturns(t, FileCall("hdfsPread", t, fs, file, eng, len))

\* hdfsRead, lines 332-351.
hdfsRead(t) ==
  /\ calls < budget
  /\ \E fs \in {NULL} \cup LiveFS, file \in {NULL} \cup LiveFiles,
        eng \in EngineOutcomes, len \in Counts :
       OnlyReturns(t, FileCall("hdfsRead", t, fs, file, eng, len))

\* hdfsSeek, lines 354-373.
hdfsSeek(t) ==
  /\ calls < budget
  /\ \E fs \in {NULL} \cup LiveFS, file \in {NULL} \cup LiveFiles, eng \in EngineOutcomes :
       OnlyReturns(t, FileCall("hdfsSeek", t, fs, file, eng, 0))

\* hdfsTell, lines 375-394.
hdfsTell(t) ==
  /\ calls < budget
  /\ \E fs \in {NULL} \cup LiveFS, file \in {NULL} \cup LiveFiles,
        eng \in EngineOutcomes, offset \in Counts :
       OnlyReturns(t, FileCall("hdfsTell", t, fs, file, eng, offset))

\* hdfsCancel, lines 397-410: CancelOperations returns nothing.
hdfsCancel(t) ==
  /\ calls < budget
  /\ \E fs \in {NULL} \cup LiveFS, file \in {NULL} \cup LiveFiles, eng \in EngineVoidOutcomes :
       OnlyReturns(t, FileCall("hdfsCancel", t, fs, file, eng, 0))

-----------------------------------------------------------------------------
(* Event callbacks *)

FsHandlers == {"fs_handler_1", "fs_handler_2"}
FileHandlers == {"file_handler_1"}
Cookies == {7}

\* std::bind(fs_callback_glue, handler, cookie, _1, _2, _3) and its file twin.
Bind(glue, handler, cookie) == [glue |-> glue, handler |-> handler, cookie |-> cookie]

\* hdfsPreAttachFSMonitor, lines 463-468.
hdfsPreAttachFSMonitor(t) ==
  /\ calls < budget
  /\ \E handler \in FsHandlers, cookie \in Cookies :
       LET callback == Bind("fs_callback_glue", handler, cookie) IN
       /\ Returns(t, Call("hdfsPreAttachFSMonitor", t, 0, NoReport, FALSE, FALSE,
                          <<handler, cookie>>, <<>>))
       /\ fsEventCallback' = ThreadLocalSet(fsEventCallback, t, Some(callback))
       /\ registered' = [registered EXCEPT ![t] = @ \cup {callback}]
       /\ UNCHANGED <<fileEventCallback, filesystems, fsHandles, files, builders, logState>>

\* hdfsPreAttachFileMonitor, lines 471-476.
hdfsPreAttachFileMonitor(t) ==
  /\ calls < budget
  /\ \E handler \in FileHandlers, cookie \in Cookies :
       LET callback == Bind("file_callback_glue", handler, cookie) IN
       /\ Returns(t, Call("hdfsPreAttachFileMonitor", t, 0, NoReport, FALSE, FALSE,
                          <<handler, cookie>>, <<>>))
       /\ fileEventCallback' = ThreadLocalSet(fileEventCallback, t, Some(callback))
       /\ registered' = [registered EXCEPT ![t] = @ \cup {callback}]
       /\ UNCHANGED <<fsEventCallback, filesystems, fsHandles, files, builders, logState>>

\* The event names this file exports (lines 416-422), and what the engine
\* passes with an event.
FsEvents == {"FS_NN_CONNECT_EVENT", "FS_NN_READ_EVENT"}
FileEvents == {"FILE_DN_CONNECT_EVENT", "FILE_DN_READ_EVENT"}
Clusters == {"cluster1", "cluster2"}
FileNames == {"/a"}
EventValues == {0, 5}

\* What a handler can return.
LIBHDFSPP_EVENT_OK == 0
DEBUG_SIMULATE_ERROR == -1
HandlerResults == {LIBHDFSPP_EVENT_OK, DEBUG_SIMULATE_ERROR, 1}

\* One invocation of a C handler.
Invocation(handler, args) == [handler |-> handler, args |-> args]

\* The glue with lines 434-438 (450-457) compiled in whatever the build.
GlueResponseAnyBuild(result, ndebug) ==
  IF result = LIBHDFSPP_EVENT_OK THEN "ok"
  ELSE IF result = DEBUG_SIMULATE_ERROR THEN "test_err"
  ELSE "ok"

\* The response the glue gives the engine for a handler's result; ndebug
\* tells whether NDEBUG was defined when the file was compiled.
GlueResponse(result, ndebug) ==
  IF result = LIBHDFSPP_EVENT_OK THEN "ok"
  ELSE IF ~ndebug /\ result = DEBUG_SIMULATE_ERROR THEN "test_err"
  ELSE "ok"

\* fs_callback_glue, lines 426-442: the handler invocations made, in order,
\* and the response; result is what the handler returns.
fs_callback_glueValueAsCookie(handler, cookie, event, cluster, value, result, ndebug) ==
  [invoked  |-> <<Invocation(handler, <<event, cluster, value, value>>)>>,
   response |-> GlueResponse(result, ndebug)]

fs_callback_glue(handler, cookie, event, cluster, value, result, ndebug) ==
  [invoked  |-> <<Invocation(handler, <<event, cluster, value, cookie>>)>>,
   response |-> GlueResponse(result, ndebug)]

\* file_callback_glue, lines 444-461.
file_callback_glue(handler, cookie, event, cluster, file, value, result, ndebug) ==
  [invoked  |-> <<Invocation(handler, <<event, cluster, file, value, cookie>>)>>,
   response |-> GlueResponse(result, ndebug)]

\* The engine signals one event through a closure that a registration of
\* thread t has bound: the glue runs with the bound handler and cookie.
FsEventSignalled(t) ==
  /\ calls < budget
  /\ \E closure \in registered[t], event \in FsEvents, cluster \in Clusters,
        value \in EventValues, result \in HandlerResults, ndebug \in BOOLEAN :
       /\ closure.glue = "fs_callback_glue"
       /\ LET r == fs_callback_glue(closure.handler, closure.cookie, event, cluster, value,
                                    result, ndebug)
          IN  OnlyReturns(t, Call("fs_callback_glue", t, 0, NoReport, FALSE, FALSE,
                                  <<closure, event, cluster, value, result, ndebug>>,
                                  <<r.invoked, r.response>>))

FileEventSignalled(t) ==
  /\ calls < budget
  /\ \E closure \in registered[t], event \in FileEvents, cluster \in Clusters,
        file \in FileNames, value \in EventValues, result \in HandlerResults,
        ndebug \in BOOLEAN :
       /\ closure.glue = "file_callback_glue"
       /\ LET r == file_callback_glue(closure.handler, closure.cookie, event, cluster, file,
                                      value, result, ndebug)
          IN  OnlyReturns(t, Call("file_callback_glue", t, 0, NoReport, FALSE, FALSE,
                                  <<closure, event, cluster, file, value, result, ndebug>>,
                                  <<r.invoked, r.response>>))

-----------------------------------------------------------------------------
(* hdfsGetLastError *)

\* A byte of the caller's buffer: a character of the text, the terminating
\* zero, or what the caller had there before the call.
NUL == ""
Unwritten == "<?>"

FreshBuf == [i \in 1..MaxBuf |-> Unwritten]

min(a, b) == IF a < b THEN a ELSE b

\* strncpy(dst, src, n): the first n bytes of src, zero-padded when src is
\* shorter than n.
strncpy(dst, src, n) ==
  [i \in 1..Len(dst) |->
     IF i <= n THEN (IF i <= Len(src) THEN SubSeq(src, i, i) ELSE NUL) ELSE dst[i]]

\* hdfsGetLastError, lines 69-84, on the calling thread's errstr m.  buf is
\* nullopt for a null pointer; the result is the buffer after the call.
GetLastErrorNoRoom(buf, len, m) ==
  IF buf = nullopt \/ len < 1
  THEN buf
  ELSE LET copylen == min(Len(m), len)
           copied  == strncpy(buf[1], m, copylen)
       IN  Some([i \in 1..MaxBuf + 1 |->
                  IF i = copylen + 1 THEN NUL
                  ELSE IF i <= MaxBuf THEN copied[i] ELSE Unwritten])

GetLastError(buf, len, m) ==
  IF buf = nullopt \/ len < 1
  THEN buf
  ELSE LET size    == min(Len(m), len)
           copylen == IF size = len THEN size - 1 ELSE size
           copied  == strncpy(buf[1], m, copylen)
       IN  Some([copied EXCEPT ![copylen + 1] = NUL])

hdfsGetLastError(t) ==
  /\ calls < budget
  /\ \E buf \in {nullopt, Some(FreshBuf)}, len \in -1..MaxBuf :
       OnlyReturns(t, Call("hdfsGetLastError", t, 0, NoReport, FALSE, FALSE,
                           <<buf, len>>, GetLastError(buf, len, errstr[t])))

-----------------------------------------------------------------------------
(* Error(stat) on its own: an exported call on thread t whose engine call  *)
(* came back with stat and which ends in "return Error(stat)" (lines 322,  *)
(* 342, 364, 385), for every Status the engine can hand over.              *)

ErrorReturned(t) ==
  /\ calls < budget
  /\ \E stat \in Statuses :
       OnlyReturns(t, Call("Error", t, Error(stat).ret, Error(stat).rep, FALSE, TRUE,
                           <<stat>>, <<>>))

-----------------------------------------------------------------------------
(* The configuration builder *)

Keys == {"k1", "k2"}
Values == {"7", "3000000000", "x"}

\* An HdfsConfiguration snapshot: each key absent or holding a string.
EmptyConfig == [k \in Keys |-> nullopt]

\* What LoadDefault can produce: the resources found on the search path, or
\* an empty configuration when none is found.
InitialConfigs == {EmptyConfig, [EmptyConfig EXCEPT !["k1"] = Some("7")]}

\* ConfigurationLoader::OverlayValue when it accepts the value: a new
\* snapshot with the key set.
OverlayValue(config, key, val) == [config EXCEPT ![key] = Some(val)]

\* Configuration::Get.
Get(config, key) == config[key]

IsDigit(c) == \E d \in 0..9 : Digit(d) = c
DigitVal(c) == CHOOSE d \in 0..9 : Digit(d) = c

RECURSIVE AllDigits(_)
AllDigits(str) ==
  str = "" \/ (IsDigit(SubSeq(str, 1, 1)) /\ AllDigits(SubSeq(str, 2, Len(str))))

RECURSIVE StripZeros(_)
StripZeros(str) ==
  IF Len(str) > 1 /\ SubSeq(str, 1, 1) = "0" THEN StripZeros(SubSeq(str, 2, Len(str)))
  ELSE str

\* A 64-bit integer, held as its sign and its decimal magnitude (the values
\* of interest lie outside what a 32-bit int holds).
Int64(neg, mag) == [neg |-> neg /\ mag # "0", mag |-> mag]

\* Configuration::GetInt: the 64-bit value of a present key holding a
\* decimal number, nothing otherwise.
GetInt(config, key) ==
  IF config[key] = nullopt THEN nullopt
  ELSE LET str  == config[key][1]
           neg  == Len(str) > 0 /\ SubSeq(str, 1, 1) = "-"
           body == IF neg THEN SubSeq(str, 2, Len(str)) ELSE str
       IN  IF body = "" \/ ~AllDigits(body) THEN nullopt
           ELSE Some(Int64(neg, StripZeros(body)))

\* hdfsBuilder::hdfsBuilder, lines 495-506.
NewBuilderObject(config) ==
  [alive |-> TRUE, config |-> config, overrideHost |-> nullopt,
   overridePort |-> nullopt, user |-> nullopt]

UnchangedButBuilders ==
  UNCHANGED <<fsEventCallback, fileEventCallback, filesystems, fsHandles, files,
              logState, registered>>

\* hdfsNewBuilder, lines 508-520, and hdfsNewBuilderFromDirectory, lines
\* 613-625: the constructor loads the configuration, or throws.
NewBuilder(op, t, args) ==
  /\ calls < budget
  /\ \E config \in InitialConfigs, eng \in UnguardedOutcomes :
       /\ Len(builders) < MaxBuilders
       /\ IF eng = "ok"
          THEN /\ Returns(t, Call(op, t, Len(builders) + 1, NoReport, FALSE, TRUE, args, <<>>))
               /\ builders' = Append(builders, NewBuilderObject(config))
          ELSE /\ Returns(t, Call(op, t, NULL, Caught([kind |-> eng]).rep, FALSE, TRUE,
                                  args, <<>>))
               /\ builders' = builders
       /\ UnchangedButBuilders

hdfsNewBuilder(t) == NewBuilder("hdfsNewBuilder", t, <<>>)

hdfsNewBuilderFromDirectory(t) ==
  NewBuilder("hdfsNewBuilderFromDirectory", t, <<"dir">>)

\* hdfsFreeBuilder, lines 540-550.
hdfsFreeBuilder(t) ==
  /\ calls < budget
  /\ \E bld \in {NULL} \cup LiveBuilders :
       /\ Returns(t, Call("hdfsFreeBuilder", t, 0, NoReport, FALSE, FALSE, <<bld>>, <<>>))
       /\ builders' = IF bld = NULL THEN builders
                                    ELSE [builders EXCEPT ![bld].alive = FALSE]
       /\ UnchangedButBuilders

\* hdfsBuilderSetNameNode, lines 522-525.
hdfsBuilderSetNameNode(t) ==
  /\ calls < budget
  /\ \E bld \in LiveBuilders, nn \in Hosts :
       /\ Returns(t, Call("hdfsBuilderSetNameNode", t, 0, NoReport, FALSE, FALSE,
                          <<bld, nn>>, <<>>))
       /\ builders' = [builders EXCEPT ![bld].overrideHost = Some(nn)]
       /\ UnchangedButBuilders

\* hdfsBuilderSetNameNodePort, lines 527-530.
hdfsBuilderSetNameNodePort(t) ==
  /\ calls < budget
  /\ \E bld \in LiveBuilders, port \in Ports :
       /\ Returns(t, Call("hdfsBuilderSetNameNodePort", t, 0, NoReport, FALSE, FALSE,
                          <<bld, port>>, <<>>))
       /\ builders' = [builders EXCEPT ![bld].overridePort = Some(port)]
       /\ UnchangedButBuilders

\* hdfsBuilderSetUserName without the test of line 534.
hdfsBuilderSetUserNameAlways(t) ==
  /\ calls < budget
  /\ \E bld \in LiveBuilders, userName \in {nullopt} \cup {Some(u) : u \in Users} :
       /\ Returns(t, Call("hdfsBuilderSetUserName", t, 0, NoReport, FALSE, FALSE,
                          <<bld, userName>>, <<>>))
       /\ builders' = [builders EXCEPT
                         ![bld].user = IF userName = nullopt THEN Some("") ELSE userName]
       /\ UnchangedButBuilders

\* hdfsBuilderSetUserName, lines 532-537; userName is a nullable C string.
hdfsBuilderSetUserName(t) ==
  /\ calls < budget
  /\ \E bld \in LiveBuilders, userName \in {nullopt} \cup {Some(u) : u \in Users} :
       /\ Returns(t, Call("hdfsBuilderSetUserName", t, 0, NoReport, FALSE, FALSE,
                          <<bld, userName>>, <<>>))
       /\ builders' = IF userName # nullopt /\ userName[1] # ""
                      THEN [builders EXCEPT ![bld].user = userName]
                      ELSE builders
       /\ UnchangedButBuilders

\* What OverlayValue does: accepts, rejects (returns no configuration), or
\* throws.
OverlayOutcomes == {"ok", "reject", "throw_std", "throw_other"}

\* hdfsBuilderConfSetStr, lines 552-573: the call's end and the builder's
\* configuration after it.  The call's record keeps, after the arguments,
\* what the loader did with them.
ConfSetStrKeepsOld(t, bld, config, key, val, ov) ==
  [call |-> Call("hdfsBuilderConfSetStr", t, 0, NoReport, FALSE, TRUE,
                 <<bld, key, val, ov>>, <<>>),
   config |-> config]

ConfSetStrStoresRejected(t, bld, config, key, val, ov) ==
  IF ov = "ok"
  THEN [call |-> Call("hdfsBuilderConfSetStr", t, 0, NoReport, FALSE, TRUE,
                      <<bld, key, val, ov>>, <<>>),
        config |-> OverlayValue(config, key, val)]
  ELSE IF ov = "reject"
  THEN [call |-> Call("hdfsBuilderConfSetStr", t, 1,
                      ReportError("EINVAL", "Could not change Builder value"),
                      FALSE, TRUE, <<bld, key, val, ov>>, <<>>),
        config |-> OverlayValue(config, key, val)]
  ELSE [call |-> Call("hdfsBuilderConfSetStr", t, -1, Caught([kind |-> ov]).rep,
                      FALSE, TRUE, <<bld, key, val, ov>>, <<>>),
        config |-> config]

ConfSetStr(t, bld, config, key, val, ov) ==
  IF ov = "ok"
  THEN [call |-> Call("hdfsBuilderConfSetStr", t, 0, NoReport, FALSE, TRUE,
                      <<bld, key, val, ov>>, <<>>),
        config |-> OverlayValue(config, key, val)]
  ELSE IF ov = "reject"
  THEN [call |-> Call("hdfsBuilderConfSetStr", t, 1,
                      ReportError("EINVAL", "Could not change Builder value"),
                      FALSE, TRUE, <<bld, key, val, ov>>, <<>>),
        config |-> config]
  ELSE [call |-> Call("hdfsBuilderConfSetStr", t, -1, Caught([kind |-> ov]).rep,
                      FALSE, TRUE, <<bld, key, val, ov>>, <<>>),
        config |-> config]

hdfsBuilderConfSetStr(t) ==
  /\ calls < budget
  /\ \E bld \in LiveBuilders, key \in Keys, val \in Values, ov \in OverlayOutcomes :
       LET r == ConfSetStr(t, bld, builders[bld].config, key, val, ov) IN
       /\ Returns(t, r.call)
       /\ builders' = [builders EXCEPT ![bld].config = r.config]
       /\ UnchangedButBuilders

\* The caller's out-parameter before a getter runs.
Unset == Some("<unset>")
UnsetInt == Some(-1)

\* malloc(len) and strncpy(*val, value->c_str(), len) with len the length
\* of the value and its terminating zero: the C string handed back.
RECURSIVE CString(_)
CString(bytes) ==
  IF bytes = <<>> \/ Head(bytes) = NUL THEN "" ELSE Head(bytes) \o CString(Tail(bytes))

StrDup(value) ==
  LET len == Len(value) + 1
  IN  CString(strncpy([i \in 1..len |-> Unwritten], value, len))

\* hdfsBuilderConfGetStr, lines 627-649.
ConfGetStr(op, t, config, key, eng, args) ==
  IF eng # "ok"
  THEN Call(op, t, -1, Caught([kind |-> eng]).rep, FALSE, TRUE, args, Unset)
  ELSE LET value == Get(config, key) IN
       Call(op, t, 0, NoReport, FALSE, TRUE, args,
            IF value # nullopt THEN Some(StrDup(value[1])) ELSE nullopt)

hdfsBuilderConfGetStr(t) ==
  /\ calls < budget
  /\ \E bld \in LiveBuilders, key \in Keys, eng \in UnguardedOutcomes :
       OnlyReturns(t, ConfGetStr("hdfsBuilderConfGetStr", t, builders[bld].config, key, eng,
                                 <<bld, key>>))

\* std::numeric_limits<int>::max() and the magnitude of ...::min().
IntMax == 2147483647
IntMaxDigits == "2147483647"
IntMinDigits == "2147483648"

RECURSIVE LexLE(_, _)
LexLE(a, b) ==
  \/ a = ""
  \/ DigitVal(SubSeq(a, 1, 1)) < DigitVal(SubSeq(b, 1, 1))
  \/ /\ SubSeq(a, 1, 1) = SubSeq(b, 1, 1)
     /\ LexLE(SubSeq(a, 2, Len(a)), SubSeq(b, 2, Len(b)))

\* a <= b for two decimal magnitudes without leading zeros.
MagLE(a, b) == Len(a) < Len(b) \/ (Len(a) = Len(b) /\ LexLE(a, b))

\* isValidInt, lines 653-657.
isValidIntNoCheck(value) == TRUE

isValidInt(value) ==
  /\ (~value.neg \/ MagLE(value.mag, IntMinDigits))
  /\ (value.neg \/ MagLE(value.mag, IntMaxDigits))

\* *val = *value: the conversion of the 64-bit value to int32_t keeps its
\* low 32 bits.  The value modulo 2^32 is computed from the decimal digits
\* in two 16-bit halves, then read as a two's-complement int.
Half == 65536

RECURSIVE DigitsMod32(_, _, _)
DigitsMod32(str, hi, lo) ==
  IF str = "" THEN <<hi, lo>>
  ELSE LET low == 10 * lo + DigitVal(SubSeq(str, 1, 1))
       IN  DigitsMod32(SubSeq(str, 2, Len(str)),
                       (10 * hi + (low \div Half)) % Half, low % Half)

Negate32(w) ==
  IF w = <<0, 0>> THEN w
  ELSE <<(Half - 1 - w[1] + (IF w[2] = 0 THEN 1 ELSE 0)) % Half, (Half - w[2]) % Half>>

Signed32(w) ==
  IF w[1] >= Half \div 2 THEN (w[1] - Half) * Half + w[2] ELSE w[1] * Half + w[2]

ToInt32(value) ==
  LET w == DigitsMod32(value.mag, 0, 0)
  IN  Signed32(IF value.neg THEN Negate32(w) ELSE w)

\* hdfsBuilderConfGetInt, lines 659-680.
ConfGetIntAbsentFails(op, t, config, key, eng, args) ==
  IF eng # "ok"
  THEN Call(op, t, -1, Caught([kind |-> eng]).rep, FALSE, TRUE, args, UnsetInt)
  ELSE LET value == GetInt(config, key) IN
       IF value = nullopt \/ ~isValidInt(value[1])
       THEN Call(op, t, 1, NoReport, FALSE, TRUE, args, UnsetInt)
       ELSE Call(op, t, 0, ReportError("EINVAL", "Could not get Builder value"),
                 FALSE, TRUE, args, Some(ToInt32(value[1])))

\* hdfsBuilderConfGetInt, lines 659-680.
ConfGetInt(op, t, config, key, eng, args) ==
  IF eng # "ok"
  THEN Call(op, t, -1, Caught([kind |-> eng]).rep, FALSE, TRUE, args, UnsetInt)
  ELSE LET value == GetInt(config, key) IN
       IF value # nullopt /\ ~isValidInt(value[1])
       THEN Call(op, t, 1, NoReport, FALSE, TRUE, args, UnsetInt)
       ELSE Call(op, t, 0, ReportError("EINVAL", "Could not get Builder value"),
                 FALSE, TRUE, args,
                 IF value # nullopt THEN Some(ToInt32(value[1])) ELSE UnsetInt)

hdfsBuilderConfGetInt(t) ==
  /\ calls < budget
  /\ \E bld \in LiveBuilders, key \in Keys, eng \in UnguardedOutcomes :
       OnlyReturns(t, ConfGetInt("hdfsBuilderConfGetInt", t, builders[bld].config, key, eng,
                                 <<bld, key>>))

\* hdfsConfGetStr, lines 584-595, and hdfsConfGetInt, lines 597-608: a
\* builder of their own, built inside the try block; ctor is how its
\* constructor ends.
hdfsConfGetStr(t) ==
  /\ calls < budget
  /\ \E config \in InitialConfigs, key \in Keys, ctor \in UnguardedOutcomes,
        eng \in UnguardedOutcomes :
       OnlyReturns(t, IF ctor # "ok"
                      THEN Call("hdfsConfGetStr", t, -1, Caught([kind |-> ctor]).rep, FALSE,
                                TRUE, <<key>>, Unset)
                      ELSE ConfGetStr("hdfsConfGetStr", t, config, key, eng, <<key>>))

hdfsConfGetInt(t) ==
  /\ calls < budget
  /\ \E config \in InitialConfigs, key \in Keys, ctor \in UnguardedOutcomes,
        eng \in UnguardedOutcomes :
       OnlyReturns(t, IF ctor # "ok"
                      THEN Call("hdfsConfGetInt", t, -1, Caught([kind |-> ctor]).rep, FALSE,
                                TRUE, <<key>>, UnsetInt)
                      ELSE ConfGetInt("hdfsConfGetInt", t, config, key, eng, <<key>>))

\* hdfsBuilderConnect, lines 580-582: the builder's fields are copied and
\* GetOptions() runs before doHdfsConnect's try block is entered.
BuilderConnect(t, bld, b, opt, eng, cb, h) ==
  IF opt # "ok"
  THEN [NoConnect EXCEPT !.call = Escaped("hdfsBuilderConnect", t, <<bld>>)]
  ELSE doHdfsConnect("hdfsBuilderConnect", t, b.overrideHost, b.overridePort, b.user,
                     GetOptions(b.config), cb, eng, h, <<bld>>)

hdfsBuilderConnect(t) ==
  /\ calls < budget
  /\ \E bld \in LiveBuilders, env \in ConnectEnvs :
       Connects(t, BuilderConnect(t, bld, builders[bld], env.opt, env.eng,
                                  fsEventCallback[t], Len(fsHandles) + 1))

-----------------------------------------------------------------------------
(* Logging *)

HDFSPP_LOG_LEVEL_TRACE == 0
HDFSPP_LOG_LEVEL_WARN == 3
HDFSPP_LOG_LEVEL_ERROR == 4
HDFSPP_LOG_COMPONENT_UNKNOWN == 1
HDFSPP_LOG_COMPONENT_FILESYSTEM == 16

IntBits == 32

\* IsLevelValid, lines 769-773.
IsLevelValid(component) ==
  ~(component < HDFSPP_LOG_LEVEL_TRACE \/ component > HDFSPP_LOG_LEVEL_ERROR)

\* popcnt, lines 777-785, on a 32-bit two's-complement int.
\* (val >> i) & 0x1 for i = 0 .. bits-1, the shift keeping the sign.
RECURSIVE popcntFrom(_, _)
popcntFrom(shifted, i) ==
  IF i >= IntBits THEN 0
  ELSE (shifted % 2) + popcntFrom(shifted \div 2, i + 1)

popcnt(val) == popcntFrom(val, 0)

\* IsComponentValid, lines 787-793.
IsComponentValidRangeOnly(component) ==
  ~(component < HDFSPP_LOG_COMPONENT_UNKNOWN \/ component > HDFSPP_LOG_COMPONENT_FILESYSTEM)

IsComponentValid(component) ==
  IF component < HDFSPP_LOG_COMPONENT_UNKNOWN \/ component > HDFSPP_LOG_COMPONENT_FILESYSTEM
  THEN FALSE
  ELSE IF popcnt(component) # 1 THEN FALSE
  ELSE TRUE

ComponentInputs == {-1, 0, 1, 3, 16, 32}
LevelInputs == {-1, 0, 4, 5}
LogCallbacks == {"NULL", "log_cb"}

\* The three validated calls, lines 795-814: op names the entry point, valid
\* the outcome of its check, eng how the LogManager call ends, after the
\* LogManager state when that call returns.
LoggingCall(op, t, arg, valid, eng, after) ==
  /\ IF ~valid
     THEN /\ Returns(t, Call(op, t, 1, NoReport, FALSE, FALSE, <<arg>>, <<>>))
          /\ logState' = logState
     ELSE IF eng # "ok"
     THEN /\ Returns(t, Escaped(op, t, <<arg>>))
          /\ logState' = logState
     ELSE /\ Returns(t, Call(op, t, 0, NoReport, FALSE, TRUE, <<arg>>, <<>>))
          /\ logState' = after
  /\ UNCHANGED <<fsEventCallback, fileEventCallback, filesystems, fsHandles, files,
                 builders, registered>>

hdfsEnableLoggingForComponent(t) ==
  /\ calls < budget
  /\ \E component \in ComponentInputs, eng \in UnguardedOutcomes :
       LoggingCall("hdfsEnableLoggingForComponent", t, component,
                   IsComponentValid(component), eng,
                   [logState EXCEPT !.components = @ \cup {component}])

hdfsDisableLoggingForComponent(t) ==
  /\ calls < budget
  /\ \E component \in ComponentInputs, eng \in UnguardedOutcomes :
       LoggingCall("hdfsDisableLoggingForComponent", t, component,
                   IsComponentValid(component), eng,
                   [logState EXCEPT !.components = @ \ {component}])

hdfsSetLoggingLevel(t) ==
  /\ calls < budget
  /\ \E level \in LevelInputs, eng \in UnguardedOutcomes :
       LoggingCall("hdfsSetLoggingLevel", t, level, IsLevelValid(level), eng,
                   [logState EXCEPT !.level = level])

\* hdfsSetLogFunction, lines 763-767: a new CForwardingLogger holding the
\* callback becomes the process-wide logger.
hdfsSetLogFunction(t) ==
  /\ calls < budget
  /\ \E callback \in LogCallbacks, eng \in UnguardedOutcomes :
       LoggingCall("hdfsSetLogFunction", t, callback, TRUE, eng,
                   [logState EXCEPT !.logger = Some([callback_ |-> callback])])

-----------------------------------------------------------------------------
(* Log records *)

\* A block of memory: whether it is allocated, the LogData record whose
\* copy allocated it (NULL for memory of the caller), and what it holds: a
\* C string or a LogData.
ZeroLogData == [level |-> 0, component |-> 0, msg |-> NULL, file_name |-> "", file_line |-> 0]

CharsBlock(by, text) == [live |-> TRUE, by |-> by, text |-> text, data |-> ZeroLogData]
LogDataBlock(by, data) == [live |-> TRUE, by |-> by, text |-> "", data |-> data]

\* The text of a log message, in memory of the caller.
CallerHeap == <<CharsBlock(NULL, "boom")>>

\* The LogData records a caller holds: the message is absent or the
\* caller's text.
LogLevels == {HDFSPP_LOG_LEVEL_WARN, HDFSPP_LOG_LEVEL_ERROR}

CallerLogData ==
  {[level |-> l, component |-> HDFSPP_LOG_COMPONENT_FILESYSTEM, msg |-> m,
    file_name |-> "filesystem.cc", file_line |-> 10] : l \in LogLevels, m \in {NULL, 1}}

\* What a pointer field of freshly malloc'ed memory can hold.
Pointers == 0..MaxHeapBlocks

\* CForwardingLogger::CopyLogData, lines 726-741.  orig is nullopt for a
\* null pointer; mallocOk and strdupOk tell whether the allocations succeed,
\* garbage is what malloc left where copy->msg lies.
CopyLogData(orig, mem, mallocOk, strdupOk, garbage) ==
  IF orig = nullopt \/ ~mallocOk
  THEN [ret |-> NULL, heap |-> mem]
  ELSE LET copy == Len(mem) + 1
           dup  == orig[1].msg # NULL /\ strdupOk
           data == [orig[1] EXCEPT !.msg = IF orig[1].msg = NULL THEN garbage
                                           ELSE IF dup THEN copy + 1 ELSE NULL]
       IN  [ret  |-> copy,
            heap |-> mem \o <<LogDataBlock(copy, data)>> \o
                     (IF dup THEN <<CharsBlock(copy, mem[orig[1].msg].text)>> ELSE <<>>)]

\* CForwardingLogger::FreeLogData, lines 743-752: the memory after the call,
\* and whether the call freed what is no allocated block (or freed the
\* record twice).
FreeLogData(data, mem) ==
  IF data = NULL
  THEN [heap |-> mem, wild |-> FALSE]
  ELSE LET msg   == mem[data].data.msg
           valid == msg \in DOMAIN mem /\ mem[msg].live
           freed == IF msg # NULL /\ valid THEN [mem EXCEPT ![msg].live = FALSE] ELSE mem
       IN  [heap |-> [freed EXCEPT ![data].data = ZeroLogData, ![data].live = FALSE],
            wild |-> msg # NULL /\ (~valid \/ msg = data)]

LogDataCall(t, c, mem) ==
  /\ Records(t, c)
  /\ heap' = mem
  /\ UNCHANGED <<fsEventCallback, fileEventCallback, filesystems, fsHandles, files,
                 builders, logState, registered>>

\* hdfsCopyLogData, lines 755-757.
hdfsCopyLogData(t) ==
  /\ calls < budget
  /\ \E orig \in {nullopt} \cup {Some(d) : d \in CallerLogData}, mallocOk \in BOOLEAN,
        strdupOk \in BOOLEAN, garbage \in Pointers :
       LET r == CopyLogData(orig, heap, mallocOk, strdupOk, garbage) IN
       /\ Len(r.heap) <= MaxHeapBlocks
       /\ LogDataCall(t, Call("hdfsCopyLogData", t, r.ret, NoReport, FALSE, FALSE,
                              <<orig, mallocOk, strdupOk>>, <<>>), r.heap)

\* hdfsFreeLogData, lines 759-761, on null or on a copy the caller holds.
hdfsFreeLogData(t) ==
  /\ calls < budget
  /\ \E data \in {NULL} \cup {a \in DOMAIN heap : heap[a].live /\ heap[a].by = a} :
       LET r == FreeLogData(data, heap) IN
       LogDataCall(t, Call("hdfsFreeLogData", t, 0, NoReport, FALSE, FALSE,
                           <<data>>, <<r.wild>>), r.heap)

-----------------------------------------------------------------------------
(* The specifications *)

\* Before the first exported call, in a run followed for n calls.
Start(n) ==
  /\ errstr = [t \in Threads |-> ""]
  /\ errno = [t \in Threads |-> "0"]
  /\ fsEventCallback = [t \in Threads |-> nullopt]
  /\ fileEventCallback = [t \in Threads |-> nullopt]
  /\ filesystems = <<>>
  /\ fsHandles = <<>>
  /\ files = <<>>
  /\ builders = <<>>
  /\ logState = [components |-> {1, 2, 4, 8, 16}, level |-> HDFSPP_LOG_LEVEL_WARN,
                 logger |-> nullopt]
  /\ heap = CallerHeap
  /\ recorded = [t \in Threads |-> ""]
  /\ registered = [t \in Threads |-> {}]
  /\ last = NoCall
  /\ calls = 0
  /\ budget = n

Init == Start(MaxCalls)

FSCalls(t) ==
  \/ hdfsConnect(t)
  \/ hdfsConnectAsUser(t)
  \/ hdfsDisconnect(t)
  \/ hdfsOpenFile(t)
  \/ hdfsCloseFile(t)
  \/ hdfsPread(t)
  \/ hdfsRead(t)
  \/ hdfsSeek(t)
  \/ hdfsTell(t)
  \/ hdfsCancel(t)
  \/ hdfsGetLastError(t)
  \/ hdfsPreAttachFSMonitor(t)
  \/ hdfsPreAttachFileMonitor(t)

BuilderCalls(t) ==
  \/ hdfsNewBuilder(t)
  \/ hdfsNewBuilderFromDirectory(t)
  \/ hdfsFreeBuilder(t)
  \/ hdfsBuilderSetNameNode(t)
  \/ hdfsBuilderSetNameNodePort(t)
  \/ hdfsBuilderSetUserName(t)
  \/ hdfsBuilderConfSetStr(t)
  \/ hdfsBuilderConfGetStr(t)
  \/ hdfsBuilderConfGetInt(t)
  \/ hdfsConfGetStr(t)
  \/ hdfsConfGetInt(t)
  \/ hdfsBuilderConnect(t)

LoggingCalls(t) ==
  \/ hdfsEnableLoggingForComponent(t)
  \/ hdfsDisableLoggingForComponent(t)
  \/ hdfsSetLoggingLevel(t)
  \/ hdfsSetLogFunction(t)

\* Every exported call, from any thread, in any order.
Next == \E t \in Threads : FSCalls(t) \/ BuilderCalls(t) \/ LoggingCalls(t)

Spec == Init /\ [][Next]_vars

\* The handle calls of one thread, with the making and freeing of builders,
\* followed further.
InitFS == Start(MaxFSCalls)

NextFS ==
  \/ FSCalls(MainThread)
  \/ hdfsNewBuilder(MainThread)
  \/ hdfsFreeBuilder(MainThread)

SpecFS == InitFS /\ [][NextFS]_vars

\* The builder calls of one thread, with the connect and disconnect calls,
\* followed further.
InitBuilder == Start(MaxBuilderCalls)

NextBuilder ==
  \/ BuilderCalls(MainThread)
  \/ hdfsConnect(MainThread)
  \/ hdfsConnectAsUser(MainThread)
  \/ hdfsDisconnect(MainThread)

SpecBuilder == InitBuilder /\ [][NextBuilder]_vars

\* Error over every Status.
NextError == \E t \in Threads : ErrorReturned(t)

SpecError == Init /\ [][NextError]_vars

\* hdfsGetLastError over stored texts shorter than, as long as and longer
\* than the buffer.
Texts == {SubSeq("abcdefghijklmnop", 1, n) : n \in 0..(MaxBuf + 1)}

InitBuf ==
  /\ errstr \in [Threads -> Texts]
  /\ errno = [t \in Threads |-> IF errstr[t] = "" THEN "0" ELSE "EINVAL"]
  /\ recorded = errstr
  /\ fsEventCallback = [t \in Threads |-> nullopt]
  /\ fileEventCallback = [t \in Threads |-> nullopt]
  /\ filesystems = <<>>
  /\ fsHandles = <<>>
  /\ files = <<>>
  /\ builders = <<>>
  /\ logState = [components |-> {1, 2, 4, 8, 16}, level |-> HDFSPP_LOG_LEVEL_WARN,
                 logger |-> nullopt]
  /\ heap = CallerHeap
  /\ registered = [t \in Threads |-> {}]
  /\ last = NoCall
  /\ calls = 0
  /\ budget = MaxCalls

NextBuf == \E t \in Threads : hdfsGetLastError(t)

SpecBuf == InitBuf /\ [][NextBuf]_vars

\* The registration of event callbacks, the connect calls that consume
\* them and hdfsOpenFile, by one thread.
InitMonitor == Start(MaxMonitorCalls)

NextMonitor ==
  \/ hdfsPreAttachFSMonitor(MainThread)
  \/ hdfsPreAttachFileMonitor(MainThread)
  \/ hdfsConnect(MainThread)
  \/ hdfsConnectAsUser(MainThread)
  \/ hdfsNewBuilder(MainThread)
  \/ hdfsBuilderConnect(MainThread)
  \/ hdfsOpenFile(MainThread)

SpecMonitor == InitMonitor /\ [][NextMonitor]_vars

\* Registrations, and events signalled through the closures they bound.
NextEvents ==
  \E t \in Threads :
    \/ hdfsPreAttachFSMonitor(t)
    \/ hdfsPreAttachFileMonitor(t)
    \/ FsEventSignalled(t)
    \/ FileEventSignalled(t)

SpecEvents == Init /\ [][NextEvents]_vars

\* The copying and freeing of log records.
InitLog == Start(MaxLogCalls)

NextLog == \E t \in Threads : hdfsCopyLogData(t) \/ hdfsFreeLogData(t)

SpecLog == InitLog /\ [][NextLog]_vars

\* The logging calls of any thread.
NextLogging == \E t \in Threads : LoggingCalls(t)

SpecLogging == Init /\ [][NextLogging]_vars

\* The getters of one builder, over configurations that hold numbers at and
\* around the ends of the int range.
IntTexts == {"7", "-7", "2147483647", "2147483648", "-2147483648", "-2147483649",
             "3000000000", "x"}

LoadableConfigs == [Keys -> {nullopt} \cup {Some(v) : v \in IntTexts}]

InitConf ==
  /\ errstr = [t \in Threads |-> ""]
  /\ errno = [t \in Threads |-> "0"]
  /\ recorded = errstr
  /\ fsEventCallback = [t \in Threads |-> nullopt]
  /\ fileEventCallback = [t \in Threads |-> nullopt]
  /\ filesystems = <<>>
  /\ fsHandles = <<>>
  /\ files = <<>>
  /\ builders \in {<<NewBuilderObject(config)>> : config \in LoadableConfigs}
  /\ logState = [components |-> {1, 2, 4, 8, 16}, level |-> HDFSPP_LOG_LEVEL_WARN,
                 logger |-> nullopt]
  /\ heap = CallerHeap
  /\ registered = [t \in Threads |-> {}]
  /\ last = Call("hdfsNewBuilder", MainThread, 1, NoReport, FALSE, TRUE, <<>>, <<>>)
  /\ calls = 0
  /\ budget = MaxCalls

NextConf ==
  \/ hdfsBuilderConfGetInt(MainThread)
  \/ hdfsBuilderConfGetStr(MainThread)

SpecConf == InitConf /\ [][NextConf]_vars

-----------------------------------------------------------------------------
(* What the caller sees of a call *)

PointerCalls == {"hdfsConnect", "hdfsConnectAsUser", "hdfsBuilderConnect", "hdfsOpenFile",
                 "hdfsNewBuilder", "hdfsNewBuilderFromDirectory"}

SentinelCalls == {"hdfsDisconnect", "hdfsCloseFile", "hdfsPread", "hdfsRead", "hdfsSeek",
                  "hdfsTell", "hdfsCancel"}

StatusCalls == {"hdfsBuilderConfSetStr", "hdfsBuilderConfGetStr", "hdfsBuilderConfGetInt",
                "hdfsConfGetStr", "hdfsConfGetInt", "hdfsEnableLoggingForComponent",
                "hdfsDisableLoggingForComponent", "hdfsSetLoggingLevel"}

ExportedCalls == PointerCalls \cup SentinelCalls \cup StatusCalls \cup
                 {"hdfsGetLastError", "hdfsPreAttachFSMonitor", "hdfsPreAttachFileMonitor",
                  "hdfsFreeBuilder", "hdfsBuilderSetNameNode", "hdfsBuilderSetNameNodePort",
                  "hdfsBuilderSetUserName", "hdfsSetLogFunction"}

\* The call returned its failure indicator: a null pointer, -1, or a
\* non-zero status.
Failed(c) ==
  /\ ~c.escaped
  /\ \/ c.op \in PointerCalls /\ c.ret = NULL
     \/ c.op \in SentinelCalls /\ c.ret = -1
     \/ c.op \in StatusCalls /\ c.ret # 0

\* The call returned, and not with a failure indicator.
Succeeded(c) == c.op \in ExportedCalls /\ ~c.escaped /\ ~Failed(c)

-----------------------------------------------------------------------------
(* C1: every exported call returns to its caller, whatever the engine does *)
(* inside it: no thrown value leaves an exported call.  (Stated as the     *)
(* claim has it; the calls that reach the engine outside a try block break *)
(* it.)                                                                    *)

C1_NoThrowLeavesACall == last.op \in ExportedCalls => ~last.escaped

-----------------------------------------------------------------------------
(* C2: Error(status) returns 0 and records nothing for an ok status; for   *)
(* every other code it returns -1 and records the errno of the table with  *)
(* the status' own text if that is non-empty and the table's default       *)
(* message otherwise.                                                      *)

C2_Table ==
  {<<"kInvalidArgument", "EINVAL", "Invalid argument">>,
   <<"kResourceUnavailable", "EAGAIN", "Resource temporarily unavailable">>,
   <<"kUnimplemented", "ENOSYS", "Function not implemented">>,
   <<"kException", "EINTR", "Exception raised">>,
   <<"kOperationCanceled", "EINTR", "Operation canceled">>,
   <<"kPermissionDenied", "EACCES", "Permission denied">>,
   <<"kOther", "ENOSYS", "Error: unrecognised code">>}

C2_ErrorFollowsTable ==
  [][last'.op = "Error" =>
       LET stat == last'.args[1]
           t    == last'.thread
       IN  IF stat.code = "kOk"
           THEN last'.ret = 0 /\ errstr' = errstr /\ errno' = errno
           ELSE \E row \in C2_Table :
                  /\ row[1] = stat.code
                  /\ last'.ret = -1
                  /\ errno'[t] = row[2]
                  /\ errstr'[t] = IF stat.msg # "" THEN stat.msg ELSE row[3]]_vars

C2_Witness ==
  /\ last.op = "Error"
  /\ last.args[1] = [code |-> "kOther", msg |-> ""]
  /\ errstr[last.thread] = "Error: unrecognised code"
  /\ \E t \in Threads : errstr[t] = "engine text" /\ errno[t] = "EACCES"

-----------------------------------------------------------------------------
(* C3: once a call has failed on a thread and recorded message m, a call   *)
(* on that thread that succeeds leaves m in place: the stored message      *)
(* changes only when a call fails.  (Stated as the claim has it, for the   *)
(* call that follows the failing one; hdfsBuilderConfGetInt breaks it.)    *)

C3_SuccessKeepsMessage ==
  [][(/\ Failed(last) /\ last.rep # NoReport
      /\ last'.thread = last.thread
      /\ Succeeded(last'))
     => errstr'[last.thread] = last.rep.msg]_vars

-----------------------------------------------------------------------------
(* C4: a call that returns a failure indicator has written an errno and a  *)
(* message for that failure into the calling thread's error record during  *)
(* the call.  (Stated as the claim has it; the out-of-range path of        *)
(* hdfsBuilderConfGetInt and the three validated logging calls break it.)  *)

C4_FailureIsReported == Failed(last) => last.rep # NoReport

-----------------------------------------------------------------------------
(* C5: no call executed by one thread changes the error text, the errno or *)
(* the pending callback slots of another thread: a thread's stored message *)
(* is always the one its own calls recorded last, hdfsGetLastError hands   *)
(* back that message, and the FileSystem a connect builds carries no       *)
(* callback but one the connecting thread registered itself.               *)

C5_OwnRecordOnly ==
  /\ \A b \in Threads : errstr[b] = recorded[b]
  /\ \A b \in Threads :
       /\ fsEventCallback[b] # nullopt => fsEventCallback[b][1] \in registered[b]
       /\ fileEventCallback[b] # nullopt => fileEventCallback[b][1] \in registered[b]
  /\ \A i \in 1..Len(filesystems) :
       filesystems[i].callback # nullopt =>
         filesystems[i].callback[1] \in registered[filesystems[i].by]
  /\ last.op = "hdfsGetLastError" =>
       last.out = GetLastError(last.args[1], last.args[2], recorded[last.thread])

C5_ThreadsDoNotShare ==
  /\ []C5_OwnRecordOnly
  /\ [][\A b \in Threads \ {last'.thread} :
          /\ errstr'[b] = errstr[b]
          /\ errno'[b] = errno[b]
          /\ fsEventCallback'[b] = fsEventCallback[b]
          /\ fileEventCallback'[b] = fileEventCallback[b]]_vars

\* One thread holds a pending callback and no message; the other has failed
\* a connect whose FileSystem was built without any callback.
C5_Witness ==
  \E a \in Threads : \E b \in Threads \ {a} :
    /\ fsEventCallback[a] # nullopt /\ errstr[a] = ""
    /\ last.thread = b /\ last.op \in {"hdfsConnect", "hdfsConnectAsUser"}
    /\ last.ret = NULL /\ errstr[b] = last.rep.msg /\ last.rep # NoReport
    /\ Len(filesystems) = 1
    /\ filesystems[1].by = b /\ filesystems[1].callback = nullopt

-----------------------------------------------------------------------------
(* C6: hdfsGetLastError(buf, len) with a non-null buf and len >= 1 writes  *)
(* the first min(|m|, len-1) bytes of the stored message m, then a zero,   *)
(* and no byte at index len or beyond; with a null buf or len < 1 it       *)
(* writes nothing.                                                         *)

C6_CopyStaysInBounds ==
  last.op = "hdfsGetLastError" =>
    LET buf == last.args[1]
        len == last.args[2]
        m   == errstr[last.thread]
        out == last.out
    IN  IF buf # nullopt /\ len >= 1
        THEN LET k == IF Len(m) < len - 1 THEN Len(m) ELSE len - 1 IN
             /\ out # nullopt
             /\ DOMAIN out[1] = DOMAIN buf[1]
             /\ \A i \in 1..k : out[1][i] = SubSeq(m, i, i)
             /\ out[1][k + 1] = NUL
             /\ \A i \in (k + 2)..MaxBuf : out[1][i] = buf[1][i]
        ELSE out = buf

\* len equal to the length of the message: the copy loses the last byte.
C6_Witness ==
  /\ last.op = "hdfsGetLastError"
  /\ last.args[1] # nullopt
  /\ last.args[2] >= 2
  /\ last.args[2] = Len(errstr[last.thread])
  /\ last.args[2] < MaxBuf
  /\ last.out[1][last.args[2]] = NUL
  /\ last.out[1][last.args[2] - 1] = SubSeq(errstr[last.thread], last.args[2] - 1, last.args[2] - 1)
  /\ last.out[1][last.args[2] + 1] = Unwritten

-----------------------------------------------------------------------------
(* C7: a handle-taking call given a null filesystem handle reports ENODEV  *)
(* and returns its failure sentinel without reaching the engine, whatever  *)
(* the file handle is; a file call given a filesystem handle and a null    *)
(* file handle reports EBADF and fails without reaching the engine.        *)

C7_HandleCalls == {"hdfsDisconnect", "hdfsOpenFile", "hdfsCloseFile", "hdfsRead",
                   "hdfsPread", "hdfsSeek", "hdfsTell", "hdfsCancel"}

C7_FileCalls == C7_HandleCalls \ {"hdfsDisconnect", "hdfsOpenFile"}

C7_NullHandleRejected ==
  last.op \in C7_HandleCalls =>
    /\ last.args[1] = NULL =>
         /\ last.rep # NoReport
         /\ last.rep.errnum = "ENODEV"
         /\ errno[last.thread] = "ENODEV"
         /\ last.ret = (IF last.op = "hdfsOpenFile" THEN NULL ELSE -1)
         /\ ~last.engine
         /\ ~last.escaped
    /\ (last.op \in C7_FileCalls /\ last.args[1] # NULL /\ last.args[2] = NULL) =>
         /\ last.rep # NoReport
         /\ last.rep.errnum = "EBADF"
         /\ errno[last.thread] = "EBADF"
         /\ last.ret = -1
         /\ ~last.engine
         /\ ~last.escaped

\* A file call made with a null filesystem handle and an open file.
C7_Witness ==
  /\ last.op \in C7_FileCalls
  /\ last.args[1] = NULL
  /\ last.args[2] \in LiveFiles
  /\ errno[last.thread] = "ENODEV"
  /\ last.ret = -1

-----------------------------------------------------------------------------
(* C8: the FileSystem owned by a handle a connect returned is alive until  *)
(* hdfsDisconnect is called on that handle; hdfsDisconnect on a handle     *)
(* returns 0 and destroys that handle's FileSystem and no other; no other  *)
(* call destroys it.                                                       *)

C8_OwnedIsAlive == \A h \in LiveFS : filesystems[fsHandles[h].filesystem_].alive

C8_AliveUntilDisconnect ==
  /\ []C8_OwnedIsAlive
  /\ [][\A h \in LiveFS :
          LET obj == fsHandles[h].filesystem_ IN
          IF last'.op = "hdfsDisconnect" /\ last'.args[1] = h
          THEN /\ last'.ret = 0
               /\ ~fsHandles'[h].alive
               /\ ~filesystems'[obj].alive
               /\ \A i \in (1..Len(filesystems)) \ {obj} :
                    filesystems'[i].alive = filesystems[i].alive
          ELSE /\ fsHandles'[h].alive
               /\ fsHandles'[h].filesystem_ = obj
               /\ filesystems'[obj].alive]_vars

\* Two connected handles, the first disconnected: its FileSystem is gone
\* and the other's is there.
C8_Witness ==
  /\ last.op = "hdfsDisconnect" /\ last.ret = 0 /\ last.args[1] = 1
  /\ Len(fsHandles) = 2
  /\ ~fsHandles[1].alive /\ ~filesystems[fsHandles[1].filesystem_].alive
  /\ fsHandles[2].alive /\ filesystems[fsHandles[2].filesystem_].alive

-----------------------------------------------------------------------------
(* C9: a connect that is handed a host or a port connects to that explicit *)
(* address, with port 8020 when no port was handed over, and connects to   *)
(* the engine's default filesystem exactly when it is handed neither; for  *)
(* hdfsConnect, hdfsConnectAsUser and hdfsBuilderConnect alike.            *)

C9_ConnectCalls == {"hdfsConnect", "hdfsConnectAsUser", "hdfsBuilderConnect"}

\* What the entry point hands to doHdfsConnect as host and as port.
C9_Host(c) ==
  IF c.op = "hdfsBuilderConnect" THEN builders[c.args[1]].overrideHost ELSE <<c.args[1]>>

C9_Port(c) ==
  IF c.op = "hdfsBuilderConnect" THEN builders[c.args[1]].overridePort ELSE <<c.args[2]>>

C9_PortText(p) == IF p = 0 THEN "0" ELSE IF p = 9000 THEN "9000" ELSE "?"

C9_ExplicitOrDefault ==
  (last.op \in C9_ConnectCalls /\ last.out # <<>>) =>
    LET nn   == C9_Host(last)
        port == C9_Port(last)
        req  == last.out[1]
    IN  IF nn = <<>> /\ port = <<>>
        THEN req.kind = "ConnectToDefaultFs"
        ELSE /\ req.kind = "Connect"
             /\ req.host = (IF nn = <<>> THEN "" ELSE nn[1])
             /\ req.port = (IF port = <<>> THEN "8020" ELSE C9_PortText(port[1]))

\* A builder with a host and no port: the connect goes to port 8020.
C9_Witness ==
  /\ last.op = "hdfsBuilderConnect"
  /\ last.out # <<>>
  /\ builders[last.args[1]].overrideHost = <<"nn1">>
  /\ builders[last.args[1]].overridePort = <<>>
  /\ last.out[1] = [kind |-> "Connect", host |-> "nn1", port |-> "8020"]

-----------------------------------------------------------------------------
(* C10: once hdfsBuilderConfSetStr(bld, k, v) has returned 0,              *)
(* hdfsBuilderConfGetStr(bld, k) hands back v until a later successful set *)
(* of k, and every other key keeps the value it had.                       *)

C10_GetReadsConfig ==
  (last.op = "hdfsBuilderConfGetStr" /\ last.ret = 0) =>
    last.out = builders[last.args[1]].config[last.args[2]]

C10_SetThenGet ==
  /\ []C10_GetReadsConfig
  /\ [][\A b \in LiveBuilders, k \in Keys :
          IF /\ last'.op = "hdfsBuilderConfSetStr" /\ last'.ret = 0
             /\ last'.args[1] = b /\ last'.args[2] = k
          THEN builders'[b].config[k] = <<last'.args[3]>>
          ELSE builders'[b].config[k] = builders[b].config[k]]_vars

\* A value that only a set can have put there is read back, the other key
\* holding what the configuration was loaded with.
C10_Witness ==
  /\ last.op = "hdfsBuilderConfGetStr" /\ last.ret = 0
  /\ last.args[2] = "k2"
  /\ last.out = <<"x">>
  /\ builders[last.args[1]].config["k1"] = <<"7">>

-----------------------------------------------------------------------------
(* C11: when the loader rejects the overlay, or throws, in                 *)
(* hdfsBuilderConfSetStr, the builder's configuration and its override     *)
(* fields are as before the call and the call returns a non-zero value; on *)
(* rejection EINVAL and "Could not change Builder value" are recorded for  *)
(* the calling thread.                                                     *)

C11_RejectedSetChangesNothing ==
  [][(last'.op = "hdfsBuilderConfSetStr" /\ last'.args[4] # "ok") =>
       /\ last'.ret # 0
       /\ ~last'.escaped
       /\ builders' = builders
       /\ last'.args[4] = "reject" =>
            /\ last'.ret = 1
            /\ errno'[last'.thread] = "EINVAL"
            /\ errstr'[last'.thread] = "Could not change Builder value"]_vars

\* A rejected set on a builder that holds a value, a host and a port.
C11_Witness ==
  /\ last.op = "hdfsBuilderConfSetStr"
  /\ last.args[4] = "reject"
  /\ last.ret = 1
  /\ errstr[last.thread] = "Could not change Builder value"
  /\ builders[last.args[1]].config["k1"] = <<"7">>
  /\ last.args[2] = "k1" /\ last.args[3] = "x"
  /\ builders[last.args[1]].overrideHost = <<"nn1">>

-----------------------------------------------------------------------------
(* C12: hdfsBuilderConfGetInt on a key whose stored value lies outside the *)
(* 32-bit signed range returns failure and leaves *val as it was; on a key *)
(* whose stored value lies inside the range it returns success with *val   *)
(* equal to exactly that value.                                            *)

C12_InRange == {<<"7", 7>>, <<"-7", -7>>, <<"2147483647", 2147483647>>,
                <<"-2147483648", -2147483647 - 1>>}

C12_OutOfRange == {"2147483648", "-2147483649", "3000000000"}

C12_IntRangeRespected ==
  last.op = "hdfsBuilderConfGetInt" =>
    LET stored == builders[last.args[1]].config[last.args[2]] IN
    /\ (stored # <<>> /\ stored[1] \in C12_OutOfRange) =>
         /\ last.ret # 0
         /\ last.out = UnsetInt
    /\ \A row \in C12_InRange :
         (stored = <<row[1]>> /\ last.ret # -1) =>
           /\ last.ret = 0
           /\ last.out = <<row[2]>>

\* The number below the smallest int is refused, after the smallest int
\* itself was handed back (which left its record in errstr).
C12_Witness ==
  /\ last.op = "hdfsBuilderConfGetInt"
  /\ builders[1].config = [k1 |-> <<"-2147483648">>, k2 |-> <<"-2147483649">>]
  /\ last.args[2] = "k2" /\ last.ret = 1 /\ last.out = UnsetInt
  /\ calls = 2
  /\ errstr[last.thread] = "Could not get Builder value"

-----------------------------------------------------------------------------
(* C13: hdfsBuilderConfGetInt on a key absent from the builder's snapshot  *)
(* returns 0, leaves *val unchanged and records EINVAL for the calling     *)
(* thread; hdfsBuilderConfGetStr on an absent key returns 0 with *val set  *)
(* to null and records no error.                                           *)

C13_AbsentKey ==
  (/\ last.op \in {"hdfsBuilderConfGetInt", "hdfsBuilderConfGetStr"}
   /\ builders[last.args[1]].config[last.args[2]] = <<>>
   /\ last.ret # -1) =>
    IF last.op = "hdfsBuilderConfGetInt"
    THEN /\ last.ret = 0
         /\ last.out = UnsetInt
         /\ last.rep # NoReport
         /\ last.rep.errnum = "EINVAL"
         /\ errno[last.thread] = "EINVAL"
    ELSE /\ last.ret = 0
         /\ last.out = <<>>
         /\ last.rep = NoReport

\* Both getters have run on a builder without the key: the string getter
\* left the record the integer getter had made.
C13_Witness ==
  /\ last.op = "hdfsBuilderConfGetStr"
  /\ builders[last.args[1]].config[last.args[2]] = <<>>
  /\ last.ret = 0 /\ last.out = <<>>
  /\ builders[last.args[1]].config = EmptyConfig
  /\ errno[last.thread] = "EINVAL"
  /\ errstr[last.thread] = "Could not get Builder value"

-----------------------------------------------------------------------------
(* C14: after hdfsPreAttachFSMonitor(h, c) on a thread, every later        *)
(* connect of that thread, through any entry point, attaches the callback  *)
(* bound to the (h, c) registered last to the FileSystem it makes; connect *)
(* does not clear the pending slot, which changes only when the thread     *)
(* registers again.                                                        *)

C14_Bound(c) == <<[glue |-> "fs_callback_glue", handler |-> c.args[1], cookie |-> c.args[2]]>>

C14_PendingCallbackAttached ==
  [][LET t == last'.thread IN
     /\ IF last'.op = "hdfsPreAttachFSMonitor"
        THEN fsEventCallback' = [fsEventCallback EXCEPT ![t] = C14_Bound(last')]
        ELSE fsEventCallback' = fsEventCallback
     /\ (last'.op \in C9_ConnectCalls /\ Len(filesystems') > Len(filesystems)) =>
          /\ Len(filesystems') = Len(filesystems) + 1
          /\ filesystems'[Len(filesystems')].callback = fsEventCallback[t]
     /\ (last'.op \in C9_ConnectCalls /\ last'.out # <<>>) =>
          Len(filesystems') > Len(filesystems)
     /\ \A i \in 1..Len(filesystems) :
          filesystems'[i].callback = filesystems[i].callback]_vars

\* One registration, then two connects that reached the engine's connect:
\* both FileSystems carry the registered callback, which is still pending.
C14_Witness ==
  /\ Len(filesystems) = 2
  /\ fsEventCallback[MainThread] # nullopt
  /\ filesystems[1].callback = fsEventCallback[MainThread]
  /\ filesystems[2].callback = fsEventCallback[MainThread]
  /\ filesystems[1].request # nullopt
  /\ filesystems[2].request # nullopt
  /\ last.op = "hdfsConnectAsUser"

-----------------------------------------------------------------------------
(* C15: each time the engine signals one event (event name, cluster,       *)
(* value) to a registered filesystem-event callback, the C handler given   *)
(* at registration is invoked exactly once, with that event name, cluster  *)
(* and value and with the cookie given at registration; the file-event     *)
(* glue does the same, with the file as well.                              *)

C15_HandlerInvokedOnce ==
  last.op \in {"fs_callback_glue", "file_callback_glue"} =>
    LET closure == last.args[1]
        invoked == last.out[1]
    IN  /\ closure \in registered[last.thread]
        /\ Len(invoked) = 1
        /\ invoked[1].handler = closure.handler
        /\ IF last.op = "fs_callback_glue"
           THEN /\ closure.handler \in FsHandlers
                /\ invoked[1].args = <<last.args[2], last.args[3], last.args[4], closure.cookie>>
           ELSE /\ closure.handler \in FileHandlers
                /\ invoked[1].args = <<last.args[2], last.args[3], last.args[4], last.args[5],
                                       closure.cookie>>

\* The read event of cluster2 with value 5 reaches the second handler with
\* the cookie it was registered with.
C15_Witness ==
  /\ last.op = "fs_callback_glue"
  /\ last.args[1] = [glue |-> "fs_callback_glue", handler |-> "fs_handler_2", cookie |-> 7]
  /\ last.out[1] = <<[handler |-> "fs_handler_2",
                      args |-> <<"FS_NN_READ_EVENT", "cluster2", 5, 7>>]>>

-----------------------------------------------------------------------------
(* C16: hdfsCopyLogData(r) returns null when r is null and, when its       *)
(* allocations succeed, a new record whose level, component, file name and *)
(* line are r's and whose message is a new allocation holding r's text, or *)
(* null when r's message is null; hdfsFreeLogData of a copy releases the   *)
(* allocations that copy made and nothing else, and hdfsFreeLogData(null)  *)
(* does nothing.  (Stated as the claim has it; the copy of a record        *)
(* without a message breaks it.)                                           *)

C16_CopyThenFree ==
  [][/\ last'.op = "hdfsCopyLogData" =>
          LET orig == last'.args[1]
              copy == last'.ret
          IN  IF orig = nullopt
              THEN copy = NULL /\ heap' = heap
              ELSE (last'.args[2] /\ last'.args[3]) =>
                     /\ copy \in DOMAIN heap' \ DOMAIN heap
                     /\ heap'[copy].live
                     /\ \A i \in DOMAIN heap : heap'[i] = heap[i]
                     /\ heap'[copy].data.level = orig[1].level
                     /\ heap'[copy].data.component = orig[1].component
                     /\ heap'[copy].data.file_name = orig[1].file_name
                     /\ heap'[copy].data.file_line = orig[1].file_line
                     /\ IF orig[1].msg = NULL
                        THEN heap'[copy].data.msg = NULL
                        ELSE LET m == heap'[copy].data.msg IN
                             /\ m \in DOMAIN heap' \ DOMAIN heap
                             /\ m # copy
                             /\ heap'[m].live
                             /\ heap'[m].text = heap[orig[1].msg].text
     /\ last'.op = "hdfsFreeLogData" =>
          LET data == last'.args[1] IN
          IF data = NULL
          THEN heap' = heap
          ELSE /\ ~last'.out[1]
               /\ \A i \in DOMAIN heap :
                    (heap[i].live /\ ~heap'[i].live) <=> (heap[i].live /\ heap[i].by = data)]_vars

-----------------------------------------------------------------------------
(* C17: hdfsEnableLoggingForComponent and hdfsDisableLoggingForComponent   *)
(* accept a component only if it lies in the declared range and has one    *)
(* bit set (zero, negative and multi-bit values are rejected), and         *)
(* hdfsSetLoggingLevel accepts only the levels of the enumeration; a       *)
(* rejected call returns a failure value and leaves the enabled components *)
(* and the log level of the engine as they were.                           *)

C17_Components == {1, 2, 4, 8, 16}

C17_Levels == {0, 1, 2, 3, 4}

C17_Accepted(c) ==
  IF c.op = "hdfsSetLoggingLevel" THEN c.args[1] \in C17_Levels
                                  ELSE c.args[1] \in C17_Components

C17_InvalidRejectedUnchanged ==
  [][last'.op \in {"hdfsEnableLoggingForComponent", "hdfsDisableLoggingForComponent",
                   "hdfsSetLoggingLevel"} =>
       IF C17_Accepted(last')
       THEN /\ last'.engine
            /\ last'.escaped \/ last'.ret = 0
       ELSE /\ last'.ret # 0
            /\ ~last'.escaped
            /\ ~last'.engine
            /\ logState' = logState]_vars

\* A multi-bit component is refused after a valid one was switched off.
C17_Witness ==
  /\ last.op = "hdfsEnableLoggingForComponent"
  /\ last.args[1] = 3
  /\ last.ret = 1
  /\ logState.components = {2, 4, 8, 16}

-----------------------------------------------------------------------------
(* C18: after a connect call that returns null, every object allocated     *)
(* during that call has been released: no FileSystem stays allocated that  *)
(* no handle owns.  (Stated as the claim has it; a connect whose engine    *)
(* call throws breaks it.)                                                 *)

C18_Owned(i) == \E h \in 1..Len(fsHandles) : fsHandles[h].filesystem_ = i

C18_FailedConnectReleasesAll ==
  (last.op \in C9_ConnectCalls /\ ~last.escaped /\ last.ret = NULL) =>
    \A i \in 1..Len(filesystems) : filesystems[i].alive => C18_Owned(i)

-----------------------------------------------------------------------------
(* C19: both pending closures of the calling thread are read and attached  *)
(* at connect time: the FileSystem a connect makes carries the pending     *)
(* file-level closure as well as the filesystem-level one, and a file      *)
(* opened through the handle gets that file-level closure.  (Stated as the *)
(* claim has it; the file-level closure is never read.)                    *)

C19_BothClosuresAttached ==
  [][LET t == last'.thread IN
     /\ (last'.op \in C9_ConnectCalls /\ Len(filesystems') > Len(filesystems)) =>
          /\ filesystems'[Len(filesystems')].callback = fsEventCallback[t]
          /\ filesystems'[Len(filesystems')].file_callback = fileEventCallback[t]
     /\ (last'.op = "hdfsOpenFile" /\ last'.ret # NULL) =>
          files'[last'.ret].callback =
            filesystems[fsHandles[last'.args[1]].filesystem_].file_callback]_vars

-----------------------------------------------------------------------------
(* C20: hdfsBuilderSetNameNode, hdfsBuilderSetNameNodePort and             *)
(* hdfsBuilderSetUserName change only their own override field of the      *)
(* builder they are given: its configuration snapshot, its other two       *)
(* override fields and every other builder stay as they were; and          *)
(* hdfsBuilderSetUserName with a null or empty name changes nothing, so a  *)
(* user name set before is kept.                                           *)

C20_Field == [hdfsBuilderSetNameNode |-> "overrideHost",
              hdfsBuilderSetNameNodePort |-> "overridePort",
              hdfsBuilderSetUserName |-> "user"]

C20_Fields == {"alive", "config", "overrideHost", "overridePort", "user"}

C20_SettersChangeOnlyTheirField ==
  [][last'.op \in DOMAIN C20_Field =>
       /\ Len(builders') = Len(builders)
       /\ \A b \in 1..Len(builders) :
            \A f \in C20_Fields :
              (b # last'.args[1] \/ f # C20_Field[last'.op]) =>
                builders'[b][f] = builders[b][f]
       /\ (last'.op = "hdfsBuilderSetUserName"
             /\ last'.args[2] \in {nullopt, Some("")}) => builders' = builders
       /\ UnchangedButBuilders]_vars

\* A user name was set, and a later hdfsBuilderSetUserName with an empty name
\* has returned.
C20_Witness ==
  /\ last.op = "hdfsBuilderSetUserName"
  /\ last.args[2] = Some("")
  /\ builders[last.args[1]].user = Some("u1")

-----------------------------------------------------------------------------
(* C21: in a build with NDEBUG defined the callback glue answers the       *)
(* engine with the continue response whatever the handler returned; in a   *)
(* debug build it answers with the synthesized test error exactly when the *)
(* handler returned DEBUG_SIMULATE_ERROR, and with the continue response   *)
(* for every other value.  Both glue functions are covered.                *)

C21_GlueCalls == {"fs_callback_glue", "file_callback_glue"}

C21_Result(c) == c.args[Len(c.args) - 1]

C21_NDebug(c) == c.args[Len(c.args)]

C21_Response(c) == c.out[2]

C21_GlueResponseByBuild ==
  last.op \in C21_GlueCalls =>
    /\ C21_Response(last) \in {"ok", "test_err"}
    /\ C21_NDebug(last) => C21_Response(last) = "ok"
    /\ ~C21_NDebug(last) =>
         (C21_Response(last) = "test_err" <=> C21_Result(last) = DEBUG_SIMULATE_ERROR)

\* A file handler returned the sentinel in a non-debug build, and the glue
\* has answered.
C21_Witness ==
  /\ last.op = "file_callback_glue"
  /\ C21_NDebug(last)
  /\ C21_Result(last) = DEBUG_SIMULATE_ERROR
  /\ C21_Response(last) = "ok"

====
